---- MODULE Spec2Model ----
(***************************************************************************)
(* Document-to-vector synchronisation and hybrid search layer of the       *)
(* hiring-assistant backend (src/models/qdrant_mixin.py), with the entity  *)
(* declarations of src/models/schemas.py and the embedding provider of     *)
(* src/models/generate_embeddings.py.                                      *)
(*                                                                         *)
(* The primary store (MongoEngine) and the index service (Qdrant) are the  *)
(* environment: every call to the index service is given an outcome by the *)
(* environment (answer, transient error, non-transient error), and every   *)
(* call to the embedding backend either answers or errors.                 *)
(***************************************************************************)
EXTENDS Integers, Sequences, FiniteSets, TLC

VARIABLES
    qdrant_client,  \* senv.qdrant_client: "None" until initialize_databases
    objects,        \* primary store: document id -> Candidate fields
    qdrant,         \* index service: collection name -> set of points
    last,           \* the operation whose result its caller is reading: the
                    \* environment's answers and what the operation did
    tasks,          \* requests in flight: each has committed to the primary
                    \* store and has its index call still to make
    deleted         \* ids whose post_delete hook has completed

vars == <<qdrant_client, objects, qdrant, last, tasks, deleted>>

----------------------------------------------------------------------------
(* Bounds of the model *)

MaxDocs == 2        \* document ids 1..MaxDocs
MaxFaults == 5      \* longest run of transient errors a call site can meet
max_tries == 5      \* _with_retries(max_tries=5)
base_delay == 1     \* _with_retries(base_delay=1.0)
MaxTasks == 2       \* requests in flight at once

DocIds == 1..MaxDocs
Orgs == {"o1", "o2"}
(* The organisation a document is registered under *)
OrgOf(id) == IF id % 2 = 1 THEN "o1" ELSE "o2"
StatusValues == {"active", "archived"}
SkillValues == {<<>>, <<"go">>}
ResumeValues == {<<>>, <<"r1">>}

(* What the environment answers at one call site of the index service:    *)
(* `fails` transient errors in a row, then `end`.                          *)
CallOutcomes == [fails : 0..MaxFaults, end : {"ok", "fatal"}]
(* The answer to a call that is made once. *)
FirstOutcomes == {"ok", "transient", "fatal"}

----------------------------------------------------------------------------
(* Values *)

NoneVal == "None"
NoVec == [some |-> FALSE]
SomeVec(v) == [some |-> TRUE, v |-> v]

Range(s) == {s[i] : i \in 1..Len(s)}

(* str(ObjectId): the identifier as the string the index and the callers use *)
ObjectIdStr == <<"c1", "c2", "c3", "c4">>
DocOfStr(s) == CHOOSE i \in 1..Len(ObjectIdStr) : ObjectIdStr[i] = s

----------------------------------------------------------------------------
(* Candidate: src/models/schemas.py *)

qdrant_collection == "ha_candidates"
dense_embed_fields == <<"resume_ocr_content">>
sparse_embed_fields == <<"skills">>
payload_fields == <<"email", "name", "phone", "resume_link", "location",
                    "current_company", "experience_years", "skills", "status">>
ReferenceFields == {"org"}
ListFields == {"skills"}

(* Candidate(org=org, status="active"): unset string fields are None, an  *)
(* unset ListField is the empty list.  Text is a sequence of words; None   *)
(* and "" are both the empty text (both falsy where the text is read).     *)
Candidate(org) ==
    [org |-> org, status |-> "active", skills |-> <<>>, resume_ocr_content |-> <<>>]

(* getattr(self, f, None) *)
GetAttr(doc, f) == IF f \in DOMAIN doc THEN doc[f] ELSE NoneVal
IsNone(f, v) == f \notin ListFields /\ v = NoneVal

----------------------------------------------------------------------------
(* EmbeddingGenerator: src/models/generate_embeddings.py *)

(* The backend's answer for a text: a function of the text alone. *)
EmbedDense(text) ==
    IF text[1] = "r1" THEN <<1, 0>>
    ELSE IF text[1] = "r2" THEN <<1, 1>>
    ELSE <<0, 1>>
EmbedSparse(text) == [indices |-> <<IF text[1] = "go" THEN 7 ELSE 9>>, values |-> <<1>>]

generate_dense_vector(text, ok) ==
    IF text = <<>> THEN [raised |-> TRUE, vec |-> <<>>]
    ELSE IF ok THEN [raised |-> FALSE, vec |-> EmbedDense(text)]
    ELSE [raised |-> FALSE, vec |-> <<>>]

generate_sparse_vector(text, ok) ==
    IF text = <<>> THEN [indices |-> <<>>, values |-> <<>>]
    ELSE IF ok THEN EmbedSparse(text)
    ELSE [indices |-> <<>>, values |-> <<>>]

----------------------------------------------------------------------------
(* QdrantMixin helpers: src/models/qdrant_mixin.py *)

(* Mutant: a fresh identifier on every call instead of the document's id *)
_point_id_uuid(id) ==
    <<"u1", "u2", "u3", "u4", "u5">>[Cardinality(UNION {qdrant[c] : c \in DOMAIN qdrant}) + 1]

_point_id(id) == ObjectIdStr[id]

_collection_name_for_class == qdrant_collection

_collection_name(doc) ==
    IF qdrant_collection # NoneVal THEN qdrant_collection
    ELSE IF GetAttr(doc, "org") # NoneVal
         THEN _collection_name_for_class \o "__org__" \o doc.org
         ELSE _collection_name_for_class

(* What reading a field gives: nothing, a plain value, a referenced        *)
(* document (a value with an `id`), or an error.                           *)
ReadField(doc, f) ==
    IF IsNone(f, GetAttr(doc, f)) THEN [kind |-> "none"]
    ELSE [kind |-> "value", v |-> GetAttr(doc, f)]

(* Mutant: a referenced document is copied as it is *)
PayloadValue_ref_kept(r) ==
    IF r.kind \in {"raises", "none"} THEN NoneVal
    ELSE IF r.kind = "ref" THEN "Document" ELSE r.v

(* The body of the loop of _build_payload for one field *)
PayloadValue(r) ==
    IF r.kind = "raises" THEN NoneVal
    ELSE IF r.kind = "none" THEN NoneVal
    ELSE IF r.kind = "ref" THEN r.id
    ELSE r.v

(* _build_payload over the declared fields of a class, read[f] being what  *)
(* getattr(self, f, None) gives                                            *)
BuildPayload(id, coll, fields, read) ==
    [f \in Range(fields) \cup {"_id", "_collection"} |->
        IF f = "_id" THEN _point_id(id)
        ELSE IF f = "_collection" THEN coll
        ELSE PayloadValue(read[f])]

_build_payload(id, doc) ==
    BuildPayload(id, _collection_name_for_class, payload_fields,
                 [f \in Range(payload_fields) |-> ReadField(doc, f)])

RECURSIVE JoinFields(_, _, _)
JoinFields(doc, fields, i) ==
    IF i > Len(fields) THEN <<>>
    ELSE GetAttr(doc, fields[i]) \o JoinFields(doc, fields, i + 1)

_dense_text_for_embedding(doc) == JoinFields(doc, dense_embed_fields, 1)
_sparse_text_for_embedding(doc) == JoinFields(doc, sparse_embed_fields, 1)

_build_dense_vector(doc, ok) ==
    LET text == _dense_text_for_embedding(doc)
    IN IF text = <<>> THEN NoVec
       ELSE LET r == generate_dense_vector(text, ok)
            IN IF r.raised THEN NoVec ELSE SomeVec(r.vec)

_build_sparse_vector(doc, ok) ==
    LET text == _sparse_text_for_embedding(doc)
    IN IF text = <<>> THEN NoVec
       ELSE SomeVec(generate_sparse_vector(text, ok))

----------------------------------------------------------------------------
(* The index service as the code calls it *)

client_get_collection(q, coll, o) == o = "ok" /\ coll \in DOMAIN q

(* Mutant: creation replaces a collection that exists by an empty one *)
client_recreate_collection(q, coll, o) ==
    IF o = "ok"
    THEN [raised |-> FALSE,
          q |-> [c \in DOMAIN q \cup {coll} |-> IF c = coll THEN {} ELSE q[c]]]
    ELSE [raised |-> TRUE, q |-> q]

client_create_collection(q, coll, o) ==
    IF o = "ok" /\ coll \notin DOMAIN q
    THEN [raised |-> FALSE,
          q |-> [c \in DOMAIN q \cup {coll} |-> IF c = coll THEN {} ELSE q[c]]]
    ELSE [raised |-> TRUE, q |-> q]

client_upsert(q, coll, point, o) ==
    IF o = "ok" /\ coll \in DOMAIN q
    THEN [raised |-> FALSE,
          q |-> [q EXCEPT ![coll] = {p \in @ : p.id # point.id} \cup {point}]]
    ELSE [raised |-> TRUE, q |-> q]

client_delete(q, coll, ids, o) ==
    IF o = "ok" /\ coll \in DOMAIN q
    THEN [raised |-> FALSE, q |-> [q EXCEPT ![coll] = {p \in @ : p.id \notin ids}]]
    ELSE [raised |-> TRUE, q |-> q]

(* The first answer of a call site *)
First(o) == IF o.fails > 0 THEN "transient" ELSE o.end

----------------------------------------------------------------------------
(* Ensure collection, upsert, delete *)

(* _ensure_collection was not called *)
NoEnsure == [q |-> <<>>, calls |-> <<>>, raised |-> FALSE]

(* Mutant: the collection is looked for but never created *)
_ensure_collection_describe_only(q, coll, oDesc, oCreate) ==
    [q |-> q, calls |-> <<"get_collection">>, raised |-> FALSE]

(* The index after the call, the index calls made, and whether the call    *)
(* raised (the outer try/except logs every error).                         *)
_ensure_collection(q, coll, oDesc, oCreate) ==
    IF client_get_collection(q, coll, oDesc)
    THEN [q |-> q, calls |-> <<"get_collection">>, raised |-> FALSE]
    ELSE [q |-> client_create_collection(q, coll, oCreate).q,
          calls |-> <<"get_collection", "create_collection">>, raised |-> FALSE]

PointStruct(id, dense_vec, sparse_vec, payload) ==
    [id |-> _point_id(id),
     vector |-> [k \in (IF dense_vec.some THEN {"text-dense"} ELSE {}) \cup
                       (IF sparse_vec.some THEN {"text-sparse"} ELSE {}) |->
                    IF k = "text-dense" THEN dense_vec.v ELSE sparse_vec.v],
     payload |-> payload]

(* Mutant: the point is written only when none is stored under the id yet *)
upsert_data_point_insert_only(id, doc, client, q, dOk, sOk, oDesc, oCreate, oUp) ==
    IF client = NoneVal
    THEN [raised |-> TRUE, ret |-> FALSE, sent |-> FALSE, q |-> q, ensure |-> NoEnsure]
    ELSE
    LET coll == _collection_name(doc)
        dense_vec == _build_dense_vector(doc, dOk)
        sparse_vec == _build_sparse_vector(doc, sOk)
    IN  IF ~dense_vec.some /\ ~sparse_vec.some
        THEN [raised |-> FALSE, ret |-> FALSE, sent |-> FALSE, q |-> q, ensure |-> NoEnsure]
        ELSE LET e == _ensure_collection(q, coll, oDesc, oCreate)
                 q1 == e.q
                 point == PointStruct(id, dense_vec, sparse_vec, _build_payload(id, doc))
                 r == client_upsert(q1, coll, point, First(oUp))
             IN IF coll \in DOMAIN q1 /\ \E p \in q1[coll] : p.id = point.id
                THEN [raised |-> FALSE, ret |-> TRUE, sent |-> TRUE, q |-> q1, ensure |-> e]
                ELSE [raised |-> FALSE, ret |-> ~r.raised, sent |-> TRUE, q |-> r.q,
                      ensure |-> e]

upsert_data_point(id, doc, client, q, dOk, sOk, oDesc, oCreate, oUp) ==
    IF client = NoneVal
    THEN [raised |-> TRUE, ret |-> FALSE, sent |-> FALSE, q |-> q, ensure |-> NoEnsure]
    ELSE
    LET coll == _collection_name(doc)
        payload == _build_payload(id, doc)
        dense_vec == _build_dense_vector(doc, dOk)
        sparse_vec == _build_sparse_vector(doc, sOk)
    IN  IF ~dense_vec.some /\ ~sparse_vec.some
        THEN [raised |-> FALSE, ret |-> FALSE, sent |-> FALSE, q |-> q, ensure |-> NoEnsure]
        ELSE LET e == _ensure_collection(q, coll, oDesc, oCreate)
                 q1 == e.q
                 point == PointStruct(id, dense_vec, sparse_vec, payload)
                 r == client_upsert(q1, coll, point, First(oUp))
             IN [raised |-> FALSE, ret |-> ~r.raised, sent |-> TRUE, q |-> r.q, ensure |-> e]

(* Mutant: the delete call names no point *)
delete_data_point_no_ids(id, doc, client, q, oDel) ==
    IF client = NoneVal
    THEN [raised |-> TRUE, ret |-> FALSE, q |-> q]
    ELSE LET r == client_delete(q, _collection_name(doc), {}, oDel)
         IN [raised |-> FALSE, ret |-> ~r.raised, q |-> r.q]

delete_data_point(id, doc, client, q, oDel) ==
    IF client = NoneVal
    THEN [raised |-> TRUE, ret |-> FALSE, q |-> q]
    ELSE LET r == client_delete(q, _collection_name(doc), {_point_id(id)}, oDel)
         IN [raised |-> FALSE, ret |-> ~r.raised, q |-> r.q]

----------------------------------------------------------------------------
(* Lifecycle hooks *)

(* Mutant: the hook without its try/except *)
_on_post_save_unguarded(up) == [raised |-> up.raised, q |-> up.q]

(* try: document.upsert_data_point() except Exception: logger.exception(...) *)
_on_post_save(up) == [raised |-> FALSE, q |-> up.q]
_on_post_delete(del) == [raised |-> FALSE, q |-> del.q]

----------------------------------------------------------------------------
Idle == [op |-> "idle"]
(* A request slot with no request in it *)
NoTask == [pc |-> "free"]

Init ==
    /\ qdrant_client = NoneVal
    /\ objects = <<>>
    /\ qdrant = <<>>
    /\ last = Idle
    /\ tasks = [t \in 1..MaxTasks |-> NoTask]
    /\ deleted = {}

(* Settings.initialize_databases, at application start-up *)
InitializeDatabases ==
    /\ last = Idle
    /\ qdrant_client = NoneVal
    /\ qdrant_client' = "QdrantClient"
    /\ UNCHANGED <<objects, qdrant, last, tasks, deleted>>

(* The caller has read the result of the last operation *)
Respond ==
    /\ last # Idle
    /\ last' = Idle
    /\ UNCHANGED <<qdrant_client, objects, qdrant, tasks, deleted>>

(* The retry policy's verdict on a call site: how the call would end if it  *)
(* were made under _with_retries.                                          *)
UpClass(o) ==
    IF First(o) = "ok" THEN "first"
    ELSE IF o.fails > 0 /\ o.fails < max_tries /\ o.end = "ok" THEN "later"
    ELSE "never"

EmbClass(text, ok) == IF text = <<>> THEN "skipped" ELSE IF ok THEN "ok" ELSE "empty"

(* What the environment can answer during one upsert_data_point, call by   *)
(* call; a call that is not reached has one (unused) answer.  env names    *)
(* the answers the environment has: env.emb for the embedding backend,     *)
(* env.first for an index call made once, env.up for the point write.      *)
UpsertOutcomes == {o \in CallOutcomes : o.fails \in {0, 1, max_tries}}
Ok == [fails |-> 0, end |-> "ok"]
AllFields == {"status", "skills", "resume_ocr_content"}
Hostile == [emb |-> BOOLEAN, first |-> FirstOutcomes, up |-> UpsertOutcomes, fields |-> AllFields,
            resumes |-> ResumeValues]
Healthy == [emb |-> {TRUE}, first |-> {"ok"}, up |-> {Ok}, fields |-> AllFields,
            resumes |-> ResumeValues]

EmbAnswers(env, text) ==
    IF qdrant_client = NoneVal \/ text = <<>> THEN {TRUE} ELSE env.emb
Reached(doc, dOk, sOk) ==
    /\ qdrant_client # NoneVal
    /\ _build_dense_vector(doc, dOk).some \/ _build_sparse_vector(doc, sOk).some
DescAnswers(env, doc, dOk, sOk) == IF Reached(doc, dOk, sOk) THEN env.first ELSE {"ok"}
CreateAnswers(env, doc, dOk, sOk, oDesc) ==
    IF Reached(doc, dOk, sOk) /\ ~client_get_collection(qdrant, _collection_name(doc), oDesc)
    THEN env.first ELSE {"ok"}
UpsertAnswers(env, doc, dOk, sOk) ==
    IF Reached(doc, dOk, sOk) THEN env.up ELSE {Ok}

(* The documents document.save() can write for an id: a new Candidate, or  *)
(* the stored one with one of env.fields assigned (possibly to its old     *)
(* value).                                                                 *)
FieldValues(f, env) ==
    IF f = "status" THEN StatusValues ELSE IF f = "skills" THEN SkillValues ELSE env.resumes

Edits(id, env) ==
    IF id \in DOMAIN objects
    THEN {[objects[id] EXCEPT ![f] = v] : <<f, v>> \in
            UNION {{<<g, w>> : w \in FieldValues(g, env)} : g \in env.fields}}
    ELSE {Candidate(OrgOf(id))}

UpsertObs(id, doc, up, dOk, sOk, oDesc, oCreate, oUp) ==
    [raised |-> up.raised, ret |-> up.ret, sent |-> up.sent,
     emb |-> [d |-> EmbClass(_dense_text_for_embedding(doc), dOk),
              s |-> EmbClass(_sparse_text_for_embedding(doc), sOk)],
     up |-> IF up.sent THEN UpClass(oUp) ELSE "none",
     ens |-> [calls |-> up.ensure.calls, raised |-> up.ensure.raised,
              kept |-> up.sent => \A c \in DOMAIN qdrant :
                                     c \in DOMAIN up.ensure.q /\ up.ensure.q[c] = qdrant[c],
              created |-> /\ up.sent
                          /\ _collection_name(doc) \notin DOMAIN qdrant
                          /\ _collection_name(doc) \in DOMAIN up.ensure.q],
     healthy |-> qdrant_client # NoneVal /\ oDesc = "ok" /\ oCreate = "ok" /\ First(oUp) = "ok",
     had |-> /\ up.sent
             /\ _collection_name(doc) \in DOMAIN qdrant
             /\ \E p \in qdrant[_collection_name(doc)] :
                    p = PointStruct(id, _build_dense_vector(doc, dOk),
                                    _build_sparse_vector(doc, sOk), _build_payload(id, doc))]

(* document.save(): the record is committed, then post_save runs the hook. *)
Save(id, env) ==
    /\ last = Idle
    /\ \E doc \in Edits(id, env) :
       \E dOk \in EmbAnswers(env, _dense_text_for_embedding(doc)) :
       \E sOk \in EmbAnswers(env, _sparse_text_for_embedding(doc)) :
       \E oDesc \in DescAnswers(env, doc, dOk, sOk) :
       \E oCreate \in CreateAnswers(env, doc, dOk, sOk, oDesc) :
       \E oUp \in UpsertAnswers(env, doc, dOk, sOk) :
           LET up == upsert_data_point(id, doc, qdrant_client, qdrant, dOk, sOk, oDesc, oCreate, oUp)
               hook == _on_post_save(up)
           IN /\ objects' = [i \in DOMAIN objects \cup {id} |-> IF i = id THEN doc ELSE objects[i]]
              /\ qdrant' = hook.q
              /\ last' = [op |-> "save", id |-> id, hook |-> hook.raised,
                          u |-> UpsertObs(id, doc, up, dOk, sOk, oDesc, oCreate, oUp)]
              /\ UNCHANGED <<qdrant_client, tasks, deleted>>

(* document.delete(): the record is removed, then post_delete runs the     *)
(* hook.  The instance may be one whose record is already gone.            *)
Delete(id, env) ==
    /\ last = Idle
    /\ \E oDel \in (IF qdrant_client = NoneVal THEN {"ok"} ELSE env.first) :
           LET doc == IF id \in DOMAIN objects THEN objects[id] ELSE Candidate(OrgOf(id))
               del == delete_data_point(id, doc, qdrant_client, qdrant, oDel)
               hook == _on_post_delete(del)
           IN /\ objects' = [i \in DOMAIN objects \ {id} |-> objects[i]]
              /\ qdrant' = hook.q
              /\ last' = [op |-> "delete", id |-> id, hook |-> hook.raised,
                          raised |-> del.raised, ret |-> del.ret,
                          healthy |-> qdrant_client # NoneVal /\ oDel = "ok",
                          coll |-> _collection_name(doc) \in DOMAIN qdrant,
                          had |-> /\ _collection_name(doc) \in DOMAIN qdrant
                                  /\ \E p \in qdrant[_collection_name(doc)] :
                                         p.id = ObjectIdStr[id]]
              /\ UNCHANGED <<qdrant_client, tasks, deleted>>

----------------------------------------------------------------------------
(* The patched QuerySet.update *)

RECURSIVE SortedSeq(_)
SortedSeq(S) ==
    IF S = {} THEN <<>>
    ELSE LET m == CHOOSE x \in S : \A y \in S : x <= y
         IN <<m>> \o SortedSeq(S \ {m})

(* Candidate.objects(status=fv): the ids the filter matches, in id order *)
Matching(objs, fv) == {i \in DOMAIN objs : objs[i].status = fv}

(* Mutant: the ids are captured also when listing them fails *)
_get_affected_ids_before_update_always(objs, fv, captureOk) ==
    LET ids == SortedSeq(Matching(objs, fv))
    IN [k \in 1..Len(ids) |-> ObjectIdStr[ids[k]]]

_get_affected_ids_before_update(objs, fv, captureOk) ==
    IF ~captureOk THEN <<>>
    ELSE LET ids == SortedSeq(Matching(objs, fv))
         IN [k \in 1..Len(ids) |-> ObjectIdStr[ids[k]]]

original_update(objs, fv, nv) ==
    [i \in DOMAIN objs |->
        IF objs[i].status = fv THEN [objs[i] EXCEPT !.status = nv] ELSE objs[i]]

(* The loop of _resync_affected_documents from position i on: one try      *)
(* around the whole loop, so the first error ends it.  failAt is the       *)
(* position whose re-fetch raises (0: none).                               *)
RECURSIVE ResyncLoop(_, _, _, _, _, _, _, _)
ResyncLoop(objs, ids, i, client, q, failAt, a, invoked) ==
    IF i > Len(ids) THEN [q |-> q, invoked |-> invoked, aborted |-> FALSE]
    ELSE IF i = failAt THEN [q |-> q, invoked |-> invoked, aborted |-> TRUE]
    ELSE LET d == DocOfStr(ids[i])
         IN IF d \notin DOMAIN objs
            THEN ResyncLoop(objs, ids, i + 1, client, q, failAt, a, invoked)
            ELSE LET up == upsert_data_point(d, objs[d], client, q,
                                             a.dOk, a.sOk, a.oDesc, a.oCreate, a.oUp)
                 IN IF up.raised
                    THEN [q |-> up.q, invoked |-> Append(invoked, ids[i]), aborted |-> TRUE]
                    ELSE ResyncLoop(objs, ids, i + 1, client, up.q, failAt, a,
                                    Append(invoked, ids[i]))

_resync_affected_documents(objs, affected_ids, client, q, failAt, a) ==
    IF affected_ids = <<>> THEN [q |-> q, invoked |-> <<>>, aborted |-> FALSE]
    ELSE ResyncLoop(objs, affected_ids, 1, client, q, failAt, a, <<>>)

(* Mutant: the patched update returns the number of re-synced documents *)
patched_update_resync_count(indexed, objs, fv, orig, captureOk, client, q, failAt, a) ==
    LET affected_ids == IF indexed THEN _get_affected_ids_before_update(objs, fv, captureOk)
                        ELSE <<>>
        rs == _resync_affected_documents(orig.objs, affected_ids, client, q, failAt, a)
    IN [result |-> Len(rs.invoked), q |-> rs.q, captured |-> affected_ids,
        invoked |-> rs.invoked, aborted |-> rs.aborted, raised |-> FALSE]

(* patched_update on a QuerySet of an indexed class (a QdrantMixin         *)
(* subclass) or of another class; orig is what original_update does and    *)
(* returns.                                                                *)
patched_update(indexed, objs, fv, orig, captureOk, client, q, failAt, a) ==
    LET affected_ids == IF indexed THEN _get_affected_ids_before_update(objs, fv, captureOk)
                        ELSE <<>>
        rs == _resync_affected_documents(orig.objs, affected_ids, client, q, failAt, a)
    IN [result |-> orig.result, q |-> rs.q, captured |-> affected_ids,
        invoked |-> rs.invoked, aborted |-> rs.aborted, raised |-> FALSE]

(* Candidate.objects(status=fv).update(status=nv) through patched_update.  *)
(* The environment's answers hold for the whole batch.                     *)
BulkUpdate(env) ==
    /\ last = Idle
    /\ \E fv \in StatusValues, nv \in StatusValues, captureOk \in BOOLEAN :
       \E failAt \in 0..Cardinality(Matching(objects, fv)) :
       \E dOk \in env.emb, sOk \in env.emb, oDesc \in env.first, oCreate \in env.first,
          oUp \in env.up :
           LET orig == [objs |-> original_update(objects, fv, nv),
                        result |-> Cardinality(Matching(objects, fv))]
               a == [dOk |-> dOk, sOk |-> sOk, oDesc |-> oDesc, oCreate |-> oCreate, oUp |-> oUp]
               r == patched_update(TRUE, objects, fv, orig, captureOk, qdrant_client, qdrant,
                                   failAt, a)
           IN /\ objects' = orig.objs
              /\ qdrant' = r.q
              /\ last' = [op |-> "update", fv |-> fv, nv |-> nv,
                          matched |-> Matching(objects, fv),
                          result |-> r.result, original |-> orig.result,
                          indexed |-> TRUE, raised |-> r.raised,
                          captured |-> r.captured, captureOk |-> captureOk,
                          failAt |-> IF failAt <= Len(r.captured) THEN failAt ELSE 0,
                          invoked |-> r.invoked, aborted |-> r.aborted]
              /\ UNCHANGED <<qdrant_client, tasks, deleted>>

(* OrgUser.objects(...).update(...) through patched_update: OrgUser is no  *)
(* QdrantMixin subclass; its records are not part of `objects`, and n of   *)
(* them match.                                                             *)
BulkUpdateOther ==
    /\ last = Idle
    /\ \E n \in 0..MaxDocs :
           LET orig == [objs |-> objects, result |-> n]
               a == [dOk |-> TRUE, sOk |-> TRUE, oDesc |-> "ok", oCreate |-> "ok", oUp |-> Ok]
               r == patched_update(FALSE, objects, "active", orig, TRUE, qdrant_client, qdrant,
                                   0, a)
           IN /\ qdrant' = r.q
              /\ last' = [op |-> "update", fv |-> NoneVal, nv |-> NoneVal, matched |-> {},
                          result |-> r.result, original |-> orig.result,
                          indexed |-> FALSE, raised |-> r.raised,
                          captured |-> r.captured, captureOk |-> TRUE, failAt |-> 0,
                          invoked |-> r.invoked, aborted |-> r.aborted]
    /\ UNCHANGED <<qdrant_client, objects, tasks, deleted>>

----------------------------------------------------------------------------
(* Retry policy *)

(* What one invocation of the wrapped call does: it returns, raises an    *)
(* error of _TRANSIENT, or raises another error.                           *)
Answers == {"ok", "transient", "fatal"}

RECURSIVE Pow2(_)
Pow2(n) == IF n = 0 THEN 1 ELSE 2 * Pow2(n - 1)

(* Mutant: one attempt more than max_tries *)
RECURSIVE RetryOneMore(_, _, _)
RetryOneMore(answers, attempt, delays) ==
    IF attempt > max_tries + 1
    THEN [res |-> "none", tries |-> attempt - 1, delays |-> delays]
    ELSE IF answers[attempt] = "ok"
    THEN [res |-> "ok", tries |-> attempt, delays |-> delays]
    ELSE IF answers[attempt] = "transient"
    THEN IF attempt = max_tries + 1
         THEN [res |-> "transient", tries |-> attempt, delays |-> delays]
         ELSE RetryOneMore(answers, attempt + 1,
                           Append(delays, base_delay * Pow2(attempt - 1)))
    ELSE [res |-> "fatal", tries |-> attempt, delays |-> delays]

(* Mutant: every error is retried, not only those of _TRANSIENT *)
RECURSIVE RetryEveryError(_, _, _)
RetryEveryError(answers, attempt, delays) ==
    IF attempt > max_tries
    THEN [res |-> "none", tries |-> attempt - 1, delays |-> delays]
    ELSE IF answers[attempt] = "ok"
    THEN [res |-> "ok", tries |-> attempt, delays |-> delays]
    ELSE IF attempt = max_tries
    THEN [res |-> answers[attempt], tries |-> attempt, delays |-> delays]
    ELSE RetryEveryError(answers, attempt + 1,
                         Append(delays, base_delay * Pow2(attempt - 1)))

(* Mutant: the delay grows linearly with the attempt *)
RECURSIVE RetryLinearBackoff(_, _, _)
RetryLinearBackoff(answers, attempt, delays) ==
    IF attempt > max_tries
    THEN [res |-> "none", tries |-> attempt - 1, delays |-> delays]
    ELSE IF answers[attempt] = "ok"
    THEN [res |-> "ok", tries |-> attempt, delays |-> delays]
    ELSE IF answers[attempt] = "transient"
    THEN IF attempt = max_tries
         THEN [res |-> "transient", tries |-> attempt, delays |-> delays]
         ELSE RetryLinearBackoff(answers, attempt + 1, Append(delays, base_delay * attempt))
    ELSE [res |-> "fatal", tries |-> attempt, delays |-> delays]

(* The loop of _with_retries from `attempt` on, over the answers the call  *)
(* gives at each invocation.  Gives what comes back to the caller          *)
(* ("transient": re-raised at the last attempt; "none": the loop ran out), *)
(* the number of invocations made, and the un-jittered delays slept.       *)
RECURSIVE RetryFrom(_, _, _)
RetryFrom(answers, attempt, delays) ==
    IF attempt > max_tries
    THEN [res |-> "none", tries |-> attempt - 1, delays |-> delays]
    ELSE IF answers[attempt] = "ok"
    THEN [res |-> "ok", tries |-> attempt, delays |-> delays]
    ELSE IF answers[attempt] = "transient"
    THEN IF attempt = max_tries
         THEN [res |-> "transient", tries |-> attempt, delays |-> delays]
         ELSE RetryFrom(answers, attempt + 1,
                        Append(delays, base_delay * Pow2(attempt - 1)))
    ELSE [res |-> "fatal", tries |-> attempt, delays |-> delays]

(* The answers of a call site that fails o.fails times with a transient    *)
(* error and then answers o.end                                            *)
AnswersOf(o) == [i \in 1..max_tries |-> IF i <= o.fails THEN "transient" ELSE o.end]

_with_retries(o) == RetryFrom(AnswersOf(o), 1, <<>>)

----------------------------------------------------------------------------
(* The index service's reads *)

client_collection_exists(q, coll) == coll \in DOMAIN q

RECURSIVE SumTo(_, _)
SumTo(f, n) == IF n = 0 THEN 0 ELSE f[n] + SumTo(f, n - 1)

Min(a, b) == IF a <= b THEN a ELSE b

(* sum(a * b for a, b in zip(vec1, vec2)) *)
Dot(v1, v2) == SumTo([i \in 1..Min(Len(v1), Len(v2)) |-> v1[i] * v2[i]], Min(Len(v1), Len(v2)))

SparseDot(s1, s2) ==
    SumTo([i \in 1..Len(s1.indices) |->
             SumTo([j \in 1..Len(s2.indices) |->
                      IF s1.indices[i] = s2.indices[j] THEN s1.values[i] * s2.values[j] ELSE 0],
                   Len(s2.indices))],
          Len(s1.indices))

PayloadGet(payload, k) == IF k \in DOMAIN payload THEN payload[k] ELSE NoneVal

(* Filter(must=[FieldCondition(key, MatchValue(value))]) *)
Matches(p, flt) ==
    \A i \in 1..Len(flt.must) :
        /\ flt.must[i].key \in DOMAIN p.payload
        /\ p.payload[flt.must[i].key] = flt.must[i].value

(* S ranked by score f, highest first; equal scores in id order *)
RECURSIVE RankSeq(_, _)
RankSeq(S, f) ==
    IF S = {} THEN <<>>
    ELSE LET b == CHOOSE p \in S : \A r \in S :
                     \/ f[p] > f[r]
                     \/ f[p] = f[r] /\ DocOfStr(p.id) <= DocOfStr(r.id)
         IN <<b>> \o RankSeq(S \ {b}, f)

Take(seq, n) == SubSeq(seq, 1, Min(n, Len(seq)))

Position(seq, x) ==
    IF \E i \in 1..Len(seq) : seq[i] = x
    THEN CHOOSE i \in 1..Len(seq) : seq[i] = x ELSE 0

rrf_k == 60
sparse_prefetch_limit == 50

RECURSIVE RrfScale(_)
RrfScale(n) == IF n = 0 THEN 1 ELSE (rrf_k + n) * RrfScale(n - 1)

(* The score Reciprocal Rank Fusion gives p over two lists: the sum of     *)
(* 1/(rrf_k + rank) over the lists p is in, scaled by K to an integer.     *)
RrfScore(denseL, sparseL, p, K) ==
    (IF Position(denseL, p) = 0 THEN 0 ELSE K \div (rrf_k + Position(denseL, p))) +
    (IF Position(sparseL, p) = 0 THEN 0 ELSE K \div (rrf_k + Position(sparseL, p)))

(* Mutant: the fused list is cut at the sparse prefetch limit *)
PrefetchFusion_uncut(denseRank, sparseRank, limit, K) ==
    LET denseL == Take(denseRank, limit)
        sparseL == Take(sparseRank, sparse_prefetch_limit)
        cands == Range(denseL) \cup Range(sparseL)
        score == [p \in cands |-> RrfScore(denseL, sparseL, p, K)]
        fused == Take(RankSeq(cands, score), sparse_prefetch_limit)
    IN [i \in 1..Len(fused) |-> [point |-> fused[i], score |-> score[fused[i]]]]

(* prefetch=[Prefetch(sparse, limit=50), Prefetch(dense, limit=limit)],    *)
(* query=FusionQuery(RRF), limit=limit, over the dense and the sparse      *)
(* ranking of the eligible points.                                         *)
PrefetchFusion(denseRank, sparseRank, limit, K) ==
    LET denseL == Take(denseRank, limit)
        sparseL == Take(sparseRank, sparse_prefetch_limit)
        cands == Range(denseL) \cup Range(sparseL)
        score == [p \in cands |-> RrfScore(denseL, sparseL, p, K)]
        fused == Take(RankSeq(cands, score), limit)
    IN [i \in 1..Len(fused) |-> [point |-> fused[i], score |-> score[fused[i]]]]

(* query_points(prefetch=[sparse top 50, dense top limit], FusionQuery(RRF), *)
(* query_filter, limit): the filter holds for every candidate; the fused  *)
(* score of a point is the sum of 1/(k + rank) over the lists it is in,    *)
(* here scaled by RrfScale to an integer.                                  *)
client_query_points(q, coll, sparse_vec, dense_vec, flt, limit) ==
    LET elig == {p \in q[coll] : Matches(p, flt)}
        denseC == {p \in elig : /\ dense_vec # <<>>
                                /\ "text-dense" \in DOMAIN p.vector
                                /\ p.vector["text-dense"] # <<>>}
        sparseC == {p \in elig : /\ "text-sparse" \in DOMAIN p.vector
                                 /\ SparseDot(p.vector["text-sparse"], sparse_vec) > 0}
        denseRank == RankSeq(denseC, [p \in denseC |-> Dot(p.vector["text-dense"], dense_vec)])
        sparseRank == RankSeq(sparseC, [p \in sparseC |->
                                          SparseDot(p.vector["text-sparse"], sparse_vec)])
        fused == PrefetchFusion(denseRank, sparseRank, limit, RrfScale(Cardinality(q[coll])))
    IN [i \in 1..Len(fused) |->
          [id |-> fused[i].point.id, payload |-> fused[i].point.payload,
           score |-> fused[i].score]]

(* retrieve(ids, with_vectors=True): the stored points among ids, in the   *)
(* order asked for                                                         *)
client_retrieve(q, coll, ids) ==
    LET hit(i) == {p \in q[coll] : p.id = ids[i]}
        found == SelectSeq([i \in 1..Len(ids) |-> i], LAMBDA i : hit(i) # {})
    IN [k \in 1..Len(found) |-> CHOOSE p \in hit(found[k]) : TRUE]

----------------------------------------------------------------------------
(* Hybrid search *)

(* Mutant: only None counts as no tenant *)
Truthy_not_none(org_id) == org_id # NoneVal

(* `if org_id:` *)
Truthy(org_id) == org_id # NoneVal /\ org_id # ""

QueryFilter(org_id) ==
    [must |-> IF Truthy(org_id) THEN <<[key |-> "org", value |-> org_id]>> ELSE <<>>]

(* Mutant: the query is embedded before the collection is looked for *)
_search_qdrant_embed_first(query, limit, org_id, client, q, oExists, dOk, sOk, oQuery) ==
    IF client = NoneVal THEN [raised |-> TRUE, result |-> <<>>, calls |-> <<>>]
    ELSE
    LET coll == qdrant_collection
        d == generate_dense_vector(query, dOk)
        ex == _with_retries(oExists)
    IN  IF d.raised
        THEN [raised |-> TRUE, result |-> <<>>, calls |-> <<"generate_dense_vector">>]
        ELSE IF ex.res # "ok"
        THEN [raised |-> TRUE, result |-> <<>>,
              calls |-> <<"generate_dense_vector", "collection_exists">>]
        ELSE [raised |-> FALSE, result |-> <<>>,
              calls |-> <<"generate_dense_vector", "collection_exists">>]

_search_qdrant(query, limit, org_id, client, q, oExists, dOk, sOk, oQuery) ==
    IF client = NoneVal THEN [raised |-> TRUE, result |-> <<>>, calls |-> <<>>]
    ELSE
    LET coll == qdrant_collection
        ex == _with_retries(oExists)
    IN  IF ex.res # "ok"
        THEN [raised |-> TRUE, result |-> <<>>, calls |-> <<"collection_exists">>]
        ELSE IF ~client_collection_exists(q, coll)
        THEN [raised |-> FALSE, result |-> <<>>, calls |-> <<"collection_exists">>]
        ELSE
        LET d == generate_dense_vector(query, dOk)
        IN  IF d.raised
            THEN [raised |-> TRUE, result |-> <<>>,
                  calls |-> <<"collection_exists", "generate_dense_vector">>]
            ELSE
            LET sparse_vec == generate_sparse_vector(query, sOk)
                qr == _with_retries(oQuery)
                calls == <<"collection_exists", "generate_dense_vector",
                           "generate_sparse_vector", "query_points">>
            IN  IF qr.res # "ok"
                THEN [raised |-> FALSE, result |-> <<>>, calls |-> calls]
                ELSE [raised |-> FALSE,
                      result |-> client_query_points(q, coll, sparse_vec, d.vec,
                                                     QueryFilter(org_id), limit),
                      calls |-> calls]

----------------------------------------------------------------------------
(* Similarity *)

(* Floating-point numbers are kept at reduced precision: a norm is the    *)
(* square root rounded to the nearest NormScale-th, the cosine a number of *)
(* CosScale-ths.                                                           *)
NormScale == 10
CosScale == 1000

ISqrt(n) == CHOOSE r \in 0..n : r * r <= n /\ (r + 1) * (r + 1) > n

(* (sum(x ** 2 for x in vec)) ** 0.5, rounded to nearest *)
Norm(vec) ==
    LET n == Dot(vec, vec) * NormScale * NormScale
        lo == NormScale * ISqrt(Dot(vec, vec))
        r == CHOOSE x \in lo..(lo + NormScale) : x * x <= n /\ (x + 1) * (x + 1) > n
    IN IF n - r * r <= (r + 1) * (r + 1) - n THEN r ELSE r + 1

_cosine_similarity(vec1, vec2) ==
    LET dot_product == Dot(vec1, vec2)
        norm1 == Norm(vec1)
        norm2 == Norm(vec2)
    IN IF norm1 = 0 \/ norm2 = 0 THEN 0
       ELSE (dot_product * NormScale * NormScale * CosScale) \div (norm1 * norm2)

(* Mutant: a target without a dense vector scores 0 instead of being    *)
(* discarded                                                               *)
_calculate_point_similarity_total(source_vector, target_vector) ==
    LET source_dense == IF "text-dense" \in DOMAIN source_vector
                        THEN source_vector["text-dense"] ELSE <<>>
        target_dense == IF "text-dense" \in DOMAIN target_vector
                        THEN target_vector["text-dense"] ELSE <<>>
    IN IF source_dense = <<>> THEN NoVec
       ELSE SomeVec(_cosine_similarity(source_dense, target_dense))

(* Mutant: a source without a dense vector is compared as the empty    *)
(* vector instead of ending the comparison                                 *)
_calculate_point_similarity_any_source(source_vector, target_vector) ==
    LET source_dense == IF "text-dense" \in DOMAIN source_vector
                        THEN source_vector["text-dense"] ELSE <<>>
        target_dense == IF "text-dense" \in DOMAIN target_vector
                        THEN target_vector["text-dense"] ELSE <<>>
    IN IF target_dense = <<>> THEN NoVec
       ELSE SomeVec(_cosine_similarity(source_dense, target_dense))

(* None is [some |-> FALSE] *)
_calculate_point_similarity(source_vector, target_vector) ==
    LET source_dense == IF "text-dense" \in DOMAIN source_vector
                        THEN source_vector["text-dense"] ELSE <<>>
        target_dense == IF "text-dense" \in DOMAIN target_vector
                        THEN target_vector["text-dense"] ELSE <<>>
    IN IF source_dense = <<>> \/ target_dense = <<>> THEN NoVec
       ELSE SomeVec(_cosine_similarity(source_dense, target_dense))

(* Mutant: the tenant filter lets every point pass *)
_passes_filters_open(payload, org_id) == TRUE

_passes_filters(payload, org_id) ==
    ~(Truthy(org_id) /\ PayloadGet(payload, "org") # org_id)

RECURSIVE ComputeFrom(_, _, _, _)
ComputeFrom(source_vector, target_points, org_id, i) ==
    IF i > Len(target_points) THEN <<>>
    ELSE LET point == target_points[i]
             rest == ComputeFrom(source_vector, target_points, org_id, i + 1)
         IN IF DOMAIN point.vector = {} \/ DOMAIN point.payload = {} THEN rest
            ELSE IF PayloadGet(point.payload, "_id") \in {NoneVal, ""} THEN rest
            ELSE IF ~_passes_filters(point.payload, org_id) THEN rest
            ELSE LET sc == _calculate_point_similarity(source_vector, point.vector)
                 IN IF ~sc.some THEN rest
                    ELSE <<[mongo_id |-> point.payload["_id"], similarity_score |-> sc.v]>>
                         \o rest

_compute_similarities(source_vector, target_points, org_id) ==
    ComputeFrom(source_vector, target_points, org_id, 1)

(* Mutant: sorted ascending and then reversed, which turns ties around *)
RECURSIVE SortAscReversed(_)
SortAscReversed(seq) ==
    IF seq = <<>> THEN <<>>
    ELSE LET x == seq[1]
             back == SortAscReversed(SubSeq(seq, 2, Len(seq)))
             k == Cardinality({i \in 1..Len(back) :
                                 back[i].similarity_score >= x.similarity_score})
         IN SubSeq(back, 1, k) \o <<x>> \o SubSeq(back, k + 1, Len(back))

(* list.sort(key=similarity_score, reverse=True): stable *)
RECURSIVE SortDesc(_)
SortDesc(seq) ==
    IF seq = <<>> THEN <<>>
    ELSE LET x == seq[Len(seq)]
             front == SortDesc(SubSeq(seq, 1, Len(seq) - 1))
             k == Cardinality({i \in 1..Len(front) :
                                 front[i].similarity_score >= x.similarity_score})
         IN SubSeq(front, 1, k) \o <<x>> \o SubSeq(front, k + 1, Len(front))

_get_source_vector(q, coll, source_mongo_id, oSrc) ==
    IF _with_retries(oSrc).res # "ok" THEN <<>>
    ELSE LET source_points == client_retrieve(q, coll, <<source_mongo_id>>)
         IN IF source_points = <<>> THEN <<>> ELSE source_points[1].vector

(* Mutant: every point of the collection is retrieved as a target *)
_get_target_points_all(q, coll, target_mongo_ids, oTgt) ==
    IF _with_retries(oTgt).res # "ok" THEN <<>>
    ELSE client_retrieve(q, coll, [i \in 1..Len(ObjectIdStr) |-> ObjectIdStr[i]])

_get_target_points(q, coll, target_mongo_ids, oTgt) ==
    IF _with_retries(oTgt).res # "ok" THEN <<>>
    ELSE client_retrieve(q, coll, target_mongo_ids)

_calculate_similarity_scores(source_mongo_id, target_mongo_ids, org_id, client, q, oExists, oSrc, oTgt) ==
    IF client = NoneVal THEN [raised |-> TRUE, result |-> <<>>]
    ELSE
    LET coll == qdrant_collection
    IN  IF _with_retries(oExists).res # "ok" THEN [raised |-> TRUE, result |-> <<>>]
        ELSE IF ~client_collection_exists(q, coll) THEN [raised |-> FALSE, result |-> <<>>]
        ELSE
        LET source_vector == _get_source_vector(q, coll, source_mongo_id, oSrc)
        IN  IF DOMAIN source_vector = {} THEN [raised |-> FALSE, result |-> <<>>]
            ELSE
            LET target_points == _get_target_points(q, coll, target_mongo_ids, oTgt)
            IN [raised |-> FALSE,
                result |-> SortDesc(_compute_similarities(source_vector, target_points,
                                                          org_id))]

----------------------------------------------------------------------------
(* Inputs of the read operations *)

MaxLimit == 2
Queries == {<<>>, <<"r1">>, <<"go">>}
TenantIds == {NoneVal, "", "o1", "o2"}
RetryAnswers ==
    {o \in CallOutcomes : o.fails \in {0, 1, max_tries} /\ (o.end = "fatal" => o.fails = 0)}
DocStrs == {ObjectIdStr[i] : i \in DocIds}
(* The target id lists: every list of distinct document ids *)
RECURSIVE ListsOver(_)
ListsOver(S) ==
    {<<>>} \cup UNION {{<<x>> \o l : l \in ListsOver(S \ {x})} : x \in S}

(* The answers of the calls an operation reaches; a call it does not      *)
(* reach has one (unused) answer.                                          *)
ExistsAnswers == IF qdrant_client = NoneVal THEN {Ok} ELSE RetryAnswers
AfterExists(oExists) ==
    /\ qdrant_client # NoneVal
    /\ _with_retries(oExists).res = "ok"
    /\ client_collection_exists(qdrant, qdrant_collection)

Search ==
    /\ last = Idle
    /\ \E query \in Queries, limit \in 1..MaxLimit, org_id \in TenantIds :
       \E oExists \in ExistsAnswers :
       \E dOk \in (IF AfterExists(oExists) /\ query # <<>> THEN BOOLEAN ELSE {TRUE}) :
       \E sOk \in (IF AfterExists(oExists) /\ query # <<>> THEN BOOLEAN ELSE {TRUE}) :
       \E oQuery \in (IF AfterExists(oExists) /\ query # <<>> THEN RetryAnswers ELSE {Ok}) :
           LET r == _search_qdrant(query, limit, org_id, qdrant_client, qdrant,
                                   oExists, dOk, sOk, oQuery)
           IN /\ last' = [op |-> "search", query |-> query, limit |-> limit,
                          org_id |-> org_id, raised |-> r.raised, result |-> r.result,
                          calls |-> r.calls,
                          exists |-> IF qdrant_client = NoneVal THEN "none"
                                     ELSE _with_retries(oExists).res,
                          emb |-> dOk, fused |-> _with_retries(oQuery).res]
              /\ UNCHANGED <<qdrant_client, objects, qdrant, tasks, deleted>>

Similarity ==
    /\ last = Idle
    /\ \E source \in DocStrs, targets \in ListsOver(DocStrs), org_id \in TenantIds :
       \E oExists \in ExistsAnswers :
       \E oSrc \in (IF AfterExists(oExists) THEN RetryAnswers ELSE {Ok}) :
       \E oTgt \in (IF /\ AfterExists(oExists)
                       /\ DOMAIN _get_source_vector(qdrant, qdrant_collection, source, oSrc) # {}
                    THEN RetryAnswers ELSE {Ok}) :
           LET r == _calculate_similarity_scores(source, targets, org_id, qdrant_client,
                                                 qdrant, oExists, oSrc, oTgt)
           IN /\ last' = [op |-> "similarity", source |-> source, targets |-> targets,
                          org_id |-> org_id, raised |-> r.raised, result |-> r.result,
                          exists |-> IF qdrant_client = NoneVal THEN "none"
                                     ELSE _with_retries(oExists).res,
                          src |-> _with_retries(oSrc).res,
                          tgt |-> _with_retries(oTgt).res]
              /\ UNCHANGED <<qdrant_client, objects, qdrant, tasks, deleted>>

(* One document followed through its whole lifecycle, under every answer *)
(* of the environment.                                                    *)
OneDoc == {1}

Next ==
    \/ InitializeDatabases
    \/ \E id \in OneDoc : Save(id, Hostile)
    \/ \E id \in OneDoc : Delete(id, Hostile)
    \/ Respond

Spec == Init /\ [][Next]_vars

(* MaxDocs documents written through a healthy environment, and the bulk  *)
(* update over them.                                                      *)
NextBulk ==
    \/ InitializeDatabases
    \/ \E id \in DocIds : Save(id, Healthy)
    \/ \E id \in DocIds : Delete(id, Healthy)
    \/ BulkUpdate(Healthy)
    \/ BulkUpdateOther
    \/ Respond

SpecBulk == Init /\ [][NextBulk]_vars

(* MaxDocs documents indexed under every answer of the embedding backend, *)
(* and the read operations over the index.                                *)
Degraded == [emb |-> BOOLEAN, first |-> {"ok"}, up |-> {Ok},
             fields |-> {"skills", "resume_ocr_content"}, resumes |-> ResumeValues]

NextSearch ==
    \/ InitializeDatabases
    \/ \E id \in DocIds : Save(id, Degraded)
    \/ \E id \in DocIds : Delete(id, Healthy)
    \/ Search
    \/ Similarity
    \/ Respond

SpecSearch == Init /\ [][NextSearch]_vars

(* MaxDocs documents with different resumes, indexed under every answer   *)
(* of the embedding backend, and the similarity ranking over them.        *)
Ranked == [emb |-> BOOLEAN, first |-> {"ok"}, up |-> {Ok},
           fields |-> {"skills", "resume_ocr_content"},
           resumes |-> ResumeValues \cup {<<"r2">>}]

NextSimilarity ==
    \/ InitializeDatabases
    \/ \E id \in DocIds : Save(id, Ranked)
    \/ Similarity
    \/ Respond

SpecSimilarity == Init /\ [][NextSimilarity]_vars

(* _cosine_similarity and _with_retries on their own, over every input   *)
(* up to a size.                                                          *)
MaxVecLen == 3
Coords == {-1, 0, 1}
Vectors == UNION {[1..n -> Coords] : n \in 0..MaxVecLen}

Cosine ==
    /\ last = Idle
    /\ \E vec1 \in Vectors, vec2 \in Vectors :
          last' = [op |-> "cosine", vec1 |-> vec1, vec2 |-> vec2,
                   result |-> _cosine_similarity(vec1, vec2)]
    /\ UNCHANGED <<qdrant_client, objects, qdrant, tasks, deleted>>

NextCosine == Cosine \/ Respond

SpecCosine == Init /\ [][NextCosine]_vars

(* fn answers anything at each of its invocations; one more answer than   *)
(* max_tries is drawn, for an invocation that must never be made.         *)
(* random() in thousandths, and the time slept for an un-jittered delay:  *)
(* delay * (0.7 + 0.6 * random()), in milliseconds                         *)
RandomValues == {0, 999}
sleep_for(delay, rnd) == delay * (700 + (600 * rnd) \div 1000)

Retry ==
    /\ last = Idle
    /\ \E answers \in [1..(max_tries + 1) -> Answers] :
       \E rnd \in [1..max_tries -> RandomValues] :
          LET r == RetryFrom(answers, 1, <<>>)
          IN  /\ \A n \in (Len(r.delays) + 1)..max_tries : rnd[n] = 0
              /\ last' = [op |-> "retry", answers |-> answers, r |-> r,
                          slept |-> [n \in 1..Len(r.delays) |-> sleep_for(r.delays[n], rnd[n])]]
    /\ UNCHANGED <<qdrant_client, objects, qdrant, tasks, deleted>>

NextRetry == Retry \/ Respond

SpecRetry == Init /\ [][NextRetry]_vars

(* The fused query on its own, over every dense and sparse ranking of the *)
(* points c1..c4 and every limit.                                          *)
FusedPoints == {[id |-> ObjectIdStr[i]] : i \in 1..Len(ObjectIdStr)}
FusedScale == RrfScale(Len(ObjectIdStr))

Fusion ==
    /\ last = Idle
    /\ \E denseRank \in ListsOver(FusedPoints), sparseRank \in ListsOver(FusedPoints) :
       \E limit \in 1..Len(ObjectIdStr) :
           last' = [op |-> "fusion", dense |-> denseRank, sparse |-> sparseRank,
                    limit |-> limit,
                    result |-> PrefetchFusion(denseRank, sparseRank, limit, FusedScale)]
    /\ UNCHANGED <<qdrant_client, objects, qdrant, tasks, deleted>>

NextFusion == Fusion \/ Respond

SpecFusion == Init /\ [][NextFusion]_vars

(* _build_payload on its own, for a JobListing: one declared field of each *)
(* kind (a string, a list, a reference to an OrgUser), every outcome of    *)
(* reading each.                                                           *)
job_listing_collection == "ha_job_listings"
job_payload_fields == <<"title", "required_skills", "created_by", "status">>
Reads(f) ==
    {[kind |-> "none"], [kind |-> "raises"]} \cup
    (IF f = "created_by" THEN {[kind |-> "ref", id |-> "u1"]}
     ELSE IF f = "required_skills" THEN {[kind |-> "value", v |-> <<>>],
                                         [kind |-> "value", v |-> <<"go">>]}
     ELSE IF f = "title" THEN {[kind |-> "value", v |-> "engineer"]}
     ELSE {[kind |-> "value", v |-> "open"]})

Payload ==
    /\ last = Idle
    /\ \E id \in DocIds :
       \E rTitle \in Reads("title"), rSkills \in Reads("required_skills") :
       \E rBy \in Reads("created_by"), rStatus \in Reads("status") :
           LET read == [title |-> rTitle, required_skills |-> rSkills,
                        created_by |-> rBy, status |-> rStatus]
           IN last' = [op |-> "payload", id |-> id, read |-> read,
                       result |-> BuildPayload(id, job_listing_collection,
                                               job_payload_fields, read)]
    /\ UNCHANGED <<qdrant_client, objects, qdrant, tasks, deleted>>

NextPayload == Payload \/ Respond

SpecPayload == Init /\ [][NextPayload]_vars

(* Requests running in parallel.  A request commits to the primary store,  *)
(* and makes its index call in a later step, from the document instance    *)
(* it holds; other requests run in between.  The index and the embedding   *)
(* backend answer every call.                                              *)
Racing == [Healthy EXCEPT !.fields = {"status", "resume_ocr_content"},
                         !.resumes = {<<"r1">>}]

SetTask(t, task) == [tasks EXCEPT ![t] = task]
(* A delete of id has been committed *)
Deleting(id) == id \in deleted \/ \E t \in 1..MaxTasks : tasks[t] = [pc |-> "delete", id |-> id]

(* document.save() up to the commit; post_save has yet to run *)
SaveCommit(t, id, env) ==
    /\ tasks[t] = NoTask
    /\ ~Deleting(id)
    /\ \E doc \in Edits(id, env) :
          /\ objects' = [i \in DOMAIN objects \cup {id} |-> IF i = id THEN doc ELSE objects[i]]
          /\ tasks' = SetTask(t, [pc |-> "upsert", id |-> id, doc |-> doc])
    /\ UNCHANGED <<qdrant_client, qdrant, last, deleted>>

(* _on_post_save: upsert_data_point of the instance that was saved *)
HookUpsert(t) ==
    /\ tasks[t].pc = "upsert"
    /\ LET up == upsert_data_point(tasks[t].id, tasks[t].doc, qdrant_client, qdrant,
                                   TRUE, TRUE, "ok", "ok", Ok)
       IN qdrant' = _on_post_save(up).q
    /\ tasks' = SetTask(t, NoTask)
    /\ UNCHANGED <<qdrant_client, objects, last, deleted>>

(* document.delete() up to the commit; post_delete has yet to run *)
DeleteCommit(t, id) ==
    /\ tasks[t] = NoTask
    /\ id \in DOMAIN objects
    /\ objects' = [i \in DOMAIN objects \ {id} |-> objects[i]]
    /\ tasks' = SetTask(t, [pc |-> "delete", id |-> id])
    /\ UNCHANGED <<qdrant_client, qdrant, last, deleted>>

(* _on_post_delete: delete_data_point of the instance that was deleted *)
HookDelete(t) ==
    /\ tasks[t].pc = "delete"
    /\ LET del == delete_data_point(tasks[t].id, Candidate(OrgOf(tasks[t].id)),
                                    qdrant_client, qdrant, "ok")
       IN qdrant' = _on_post_delete(del).q
    /\ deleted' = deleted \cup {tasks[t].id}
    /\ tasks' = SetTask(t, NoTask)
    /\ UNCHANGED <<qdrant_client, objects, last>>

(* patched_update up to the original update: the ids are captured and the  *)
(* records updated; _resync_affected_documents has yet to run.             *)
BulkCommit(t) ==
    /\ tasks[t] = NoTask
    /\ \E fv \in StatusValues, nv \in StatusValues :
          LET affected_ids == _get_affected_ids_before_update(objects, fv, TRUE)
          IN /\ affected_ids # <<>>
             /\ objects' = original_update(objects, fv, nv)
             /\ tasks' = SetTask(t, [pc |-> "fetch", ids |-> affected_ids])
    /\ UNCHANGED <<qdrant_client, qdrant, last, deleted>>

(* What the loop of _resync_affected_documents does after an id *)
ResyncRest(ids) == IF ids = <<>> THEN NoTask ELSE [pc |-> "fetch", ids |-> ids]

(* doc = cls.objects(id=doc_id).first(); if doc: ... *)
ResyncFetch(t) ==
    /\ tasks[t].pc = "fetch"
    /\ LET d == DocOfStr(Head(tasks[t].ids))
       IN tasks' = SetTask(t, IF d \in DOMAIN objects
                              THEN [pc |-> "resync", id |-> d, doc |-> objects[d],
                                    ids |-> Tail(tasks[t].ids)]
                              ELSE ResyncRest(Tail(tasks[t].ids)))
    /\ UNCHANGED <<qdrant_client, objects, qdrant, last, deleted>>

(* ... doc.upsert_data_point(); an error ends the loop *)
ResyncUpsert(t) ==
    /\ tasks[t].pc = "resync"
    /\ LET up == upsert_data_point(tasks[t].id, tasks[t].doc, qdrant_client, qdrant,
                                   TRUE, TRUE, "ok", "ok", Ok)
       IN /\ qdrant' = up.q
          /\ tasks' = SetTask(t, IF up.raised THEN NoTask ELSE ResyncRest(tasks[t].ids))
    /\ UNCHANGED <<qdrant_client, objects, last, deleted>>

NextRace ==
    \/ InitializeDatabases
    \/ \E t \in 1..MaxTasks, id \in OneDoc : SaveCommit(t, id, Racing)
    \/ \E t \in 1..MaxTasks : HookUpsert(t)
    \/ \E t \in 1..MaxTasks, id \in OneDoc : DeleteCommit(t, id)
    \/ \E t \in 1..MaxTasks : HookDelete(t)
    \/ \E t \in 1..MaxTasks : BulkCommit(t)
    \/ \E t \in 1..MaxTasks : ResyncFetch(t)
    \/ \E t \in 1..MaxTasks : ResyncUpsert(t)

SpecRace == Init /\ [][NextRace]_vars

(* upsert_data_point call by call: requests on different entities run in  *)
(* parallel, and between the describe, the create and the upsert call of   *)
(* one request the calls of the others take place.  The index and the      *)
(* embedding backend answer every call.                                    *)
Busy(id) == \E t \in 1..MaxTasks : tasks[t] # NoTask /\ tasks[t].id = id

(* Mutant: an error of create_collection ends the upsert *)
AfterCreate_fatal(task, raised) ==
    IF raised
    THEN [pc |-> "done", id |-> task.id, doc |-> task.doc, lost |-> TRUE,
          sent |-> FALSE, ret |-> FALSE, raised |-> FALSE]
    ELSE [task EXCEPT !.pc = "upsert", !.lost = raised]

(* The request after create_collection: both try/except blocks swallow    *)
(* its error, and the upsert call follows.                                 *)
AfterCreate(task, raised) == [task EXCEPT !.pc = "upsert", !.lost = raised]

(* document.save() and upsert_data_point up to _ensure_collection *)
UpsertStart(t, id, env) ==
    /\ tasks[t] = NoTask
    /\ ~Busy(id)
    /\ \E doc \in Edits(id, env) :
          /\ objects' = [i \in DOMAIN objects \cup {id} |-> IF i = id THEN doc ELSE objects[i]]
          /\ tasks' = SetTask(t,
                IF qdrant_client = NoneVal
                THEN [pc |-> "done", id |-> id, doc |-> doc, lost |-> FALSE,
                      sent |-> FALSE, ret |-> FALSE, raised |-> TRUE]
                ELSE IF /\ ~_build_dense_vector(doc, TRUE).some
                        /\ ~_build_sparse_vector(doc, TRUE).some
                THEN [pc |-> "done", id |-> id, doc |-> doc, lost |-> FALSE,
                      sent |-> FALSE, ret |-> FALSE, raised |-> FALSE]
                ELSE [pc |-> "describe", id |-> id, doc |-> doc, lost |-> FALSE])
    /\ UNCHANGED <<qdrant_client, qdrant, last, deleted>>

(* _ensure_collection: client.get_collection *)
EnsureDescribe(t) ==
    /\ tasks[t].pc = "describe"
    /\ tasks' = SetTask(t, [tasks[t] EXCEPT !.pc =
                  IF client_get_collection(qdrant, _collection_name(tasks[t].doc), "ok")
                  THEN "upsert" ELSE "create"])
    /\ UNCHANGED <<qdrant_client, objects, qdrant, last, deleted>>

(* _ensure_collection: client.create_collection *)
EnsureCreate(t) ==
    /\ tasks[t].pc = "create"
    /\ LET c == client_create_collection(qdrant, _collection_name(tasks[t].doc), "ok")
       IN /\ qdrant' = c.q
          /\ tasks' = SetTask(t, AfterCreate(tasks[t], c.raised))
    /\ UNCHANGED <<qdrant_client, objects, last, deleted>>

(* upsert_data_point: client.upsert and the return value *)
PointUpsert(t) ==
    /\ tasks[t].pc = "upsert"
    /\ LET point == PointStruct(tasks[t].id, _build_dense_vector(tasks[t].doc, TRUE),
                                _build_sparse_vector(tasks[t].doc, TRUE),
                                _build_payload(tasks[t].id, tasks[t].doc))
           r == client_upsert(qdrant, _collection_name(tasks[t].doc), point, "ok")
       IN /\ qdrant' = r.q
          /\ tasks' = SetTask(t, [pc |-> "done", id |-> tasks[t].id, doc |-> tasks[t].doc,
                                  lost |-> tasks[t].lost, sent |-> TRUE,
                                  ret |-> ~r.raised, raised |-> FALSE])
    /\ UNCHANGED <<qdrant_client, objects, last, deleted>>

(* The caller has read the return value *)
UpsertReturn(t) ==
    /\ tasks[t].pc = "done"
    /\ tasks' = SetTask(t, NoTask)
    /\ UNCHANGED <<qdrant_client, objects, qdrant, last, deleted>>

Resumed == [Healthy EXCEPT !.fields = {"resume_ocr_content"}]

NextEnsure ==
    \/ InitializeDatabases
    \/ \E t \in 1..MaxTasks, id \in DocIds : UpsertStart(t, id, Resumed)
    \/ \E t \in 1..MaxTasks : EnsureDescribe(t)
    \/ \E t \in 1..MaxTasks : EnsureCreate(t)
    \/ \E t \in 1..MaxTasks : PointUpsert(t)
    \/ \E t \in 1..MaxTasks : UpsertReturn(t)

SpecEnsure == Init /\ [][NextEnsure]_vars

----------------------------------------------------------------------------
(* Claims *)

(* The points stored under the identifier string of document id *)
PointsOf(q, id) ==
    IF qdrant_collection \in DOMAIN q
    THEN {p \in q[qdrant_collection] : p.id = ObjectIdStr[id]} ELSE {}

(* The point upsert_data_point builds for the stored document under the    *)
(* embedder answers observed in `last`.                                    *)
CurrentPoint(id) ==
    PointStruct(id, _build_dense_vector(objects[id], last.u.emb.d = "ok"),
                _build_sparse_vector(objects[id], last.u.emb.s = "ok"),
                _build_payload(id, objects[id]))

C2_HooksNeverFail ==
    /\ last.op = "save" => (~last.hook /\ last.id \in DOMAIN objects)
    /\ last.op = "delete" => (~last.hook /\ last.id \notin DOMAIN objects)
C2_Witness ==
    /\ last.op = "save" /\ last.u.raised /\ ~last.hook /\ last.id \in DOMAIN objects

(* C3: upsert_data_point and delete_data_point never raise to their        *)
(* caller; every index-side failure gives the return value False.          *)
C3_UpsertDeleteNeverThrow ==
    /\ last.op = "save" => ~last.u.raised
    /\ last.op = "delete" => ~last.raised

(* C4: a point write that fails with a transient error and would succeed   *)
(* on a later attempt within max_tries is retried: the point ends up       *)
(* stored and upsert_data_point returns True.                              *)
C4_UpsertRetriedUntilStored ==
    (last.op = "save" /\ last.u.up = "later" /\ qdrant_collection \in DOMAIN qdrant)
        => (last.u.ret = TRUE /\ PointsOf(qdrant, last.id) # {})

(* C5 as claimed: after every save whose hook met a healthy index service, *)
(* the index holds for the entity exactly the point derived from its       *)
(* current field values, or nothing when no vector can be derived; nothing *)
(* of an earlier version remains.                                          *)
C5_FullOverwriteAlways ==
    (last.op = "save" /\ last.u.healthy)
        => PointsOf(qdrant, last.id) =
             (IF CurrentPoint(last.id).vector = <<>> THEN {} ELSE {CurrentPoint(last.id)})

(* C5 as amended: after every save whose hook met a healthy index service  *)
(* and whose entity has a non-empty dense or sparse text, the index holds  *)
(* for the entity exactly the point derived from its current field values; *)
(* when both texts are empty the write is skipped (returns False).         *)
C5_FullOverwriteWhenEmbeddable ==
    (last.op = "save" /\ last.u.healthy)
        => IF CurrentPoint(last.id).vector = <<>>
           THEN ~last.u.sent /\ ~last.u.ret
           ELSE PointsOf(qdrant, last.id) = {CurrentPoint(last.id)}
C5_Witness ==
    /\ last.op = "save" /\ last.u.healthy /\ last.u.ret
    /\ objects[last.id].status = "archived" /\ objects[last.id].skills # <<>>
    /\ PointsOf(qdrant, last.id) = {CurrentPoint(last.id)}

(* C6 as claimed: after delete_data_point met a healthy index service no   *)
(* point with the id remains, and the call returns True, also when the     *)
(* point was absent or the collection was never created.                   *)
C6_DeleteTerminalAlways ==
    (last.op = "delete" /\ last.healthy)
        => (PointsOf(qdrant, last.id) = {} /\ last.ret = TRUE)

(* C6 as amended: after delete_data_point met a healthy index service no   *)
(* point with the id remains; the call returns True exactly when the       *)
(* collection exists (also when the point was absent), and False when the  *)
(* collection was never created.                                           *)
C6_DeleteTerminal ==
    (last.op = "delete" /\ last.healthy)
        => (PointsOf(qdrant, last.id) = {} /\ (last.ret <=> last.coll))
C6_Witness ==
    last.op = "delete" /\ last.healthy /\ last.ret /\ ~last.had /\ PointsOf(qdrant, last.id) = {}

(* C7: a successful upsert leaves exactly one point with the entity's id,  *)
(* and an upsert of an entity whose point, built from unchanged fields     *)
(* with the same embedder answers, is already stored leaves the index      *)
(* state as it was.                                                        *)
C7_IdempotentUpsert ==
    [][(last'.op = "save" /\ last'.u.ret)
         => /\ Cardinality(PointsOf(qdrant', last'.id)) = 1
            /\ last'.u.had => qdrant' = qdrant]_vars
C7_Witness == last.op = "save" /\ last.u.ret /\ last.u.had

(* C8: the bulk update captures the matching ids before it executes and,   *)
(* after it, invokes upsert_data_point exactly once, in capture order, on  *)
(* every captured id that still exists and whose own re-fetch answers,     *)
(* also when no record matches the filter any more, and on no other id.    *)
C8_BulkResyncEveryCaptured ==
    last.op = "update" =>
        /\ Range(last.captured) \subseteq {ObjectIdStr[i] : i \in last.matched}
        /\ last.invoked =
             SelectSeq(last.captured,
                       LAMBDA s : /\ DocOfStr(s) \in DOMAIN objects
                                  /\ (last.failAt = 0 \/ s # last.captured[last.failAt]))

(* C9: when the re-fetch or the upsert of the captured id at position i    *)
(* raises, every captured id after position i is still re-upserted.        *)
C9_ResyncIsolatesFailures ==
    (last.op = "update" /\ last.aborted) =>
        \A k \in 1..Len(last.captured) :
            \/ \E j \in 1..Len(last.invoked) : last.invoked[j] = last.captured[k]
            \/ k = last.failAt
            \/ DocOfStr(last.captured[k]) \notin DOMAIN objects

(* The stored points a similarity result entry stands for *)
PointsOfMongoId(mid) ==
    IF qdrant_collection \in DOMAIN qdrant
    THEN {p \in qdrant[qdrant_collection] : PayloadGet(p.payload, "_id") = mid} ELSE {}

(* C10: a search or similarity call made for tenant T returns no point     *)
(* whose payload field org differs from T or is absent.                    *)
C10_TenantIsolation ==
    /\ (last.op = "search" /\ last.org_id \in Orgs) =>
          \A i \in 1..Len(last.result) :
              PayloadGet(last.result[i].payload, "org") = last.org_id
    /\ (last.op = "similarity" /\ last.org_id \in Orgs) =>
          \A i \in 1..Len(last.result) :
              \A p \in PointsOfMongoId(last.result[i].mongo_id) :
                  PayloadGet(p.payload, "org") = last.org_id
(* A tenant-scoped similarity call whose source has a dense vector and     *)
(* which asked for another stored point with the same dense vector (the    *)
(* nearest there can be) that is not of the tenant, and did not return it. *)
C10_Witness ==
    /\ last.op = "similarity" /\ last.org_id \in Orgs /\ ~last.raised
    /\ \E ps \in PointsOf(qdrant, DocOfStr(last.source)) :
       \E i \in 1..Len(last.targets) :
       \E pt \in PointsOf(qdrant, DocOfStr(last.targets[i])) :
          /\ last.targets[i] # last.source
          /\ "text-dense" \in DOMAIN ps.vector /\ "text-dense" \in DOMAIN pt.vector
          /\ ps.vector["text-dense"] # <<>>
          /\ ps.vector["text-dense"] = pt.vector["text-dense"]
          /\ PayloadGet(pt.payload, "org") # last.org_id
          /\ \A k \in 1..Len(last.result) : last.result[k].mongo_id # last.targets[i]

(* C11: a point written by a successful upsert carries in its payload the  *)
(* tenant field org, equal to the identifier string of the entity's        *)
(* organisation, so that a call scoped to that tenant can return it.       *)
C11_PayloadCarriesTenant ==
    (last.op = "save" /\ last.u.ret) =>
        \A p \in PointsOf(qdrant, last.id) :
            PayloadGet(p.payload, "org") = objects[last.id].org

(* C12: _search_qdrant never raises: with the index client initialised, a  *)
(* failing collection-existence check, a failing fused query or a failing  *)
(* embedder gives the empty result list.                                   *)
C12_SearchNeverRaises ==
    (last.op = "search" /\ qdrant_client # NoneVal) =>
        /\ ~last.raised
        /\ (last.exists # "ok" \/ last.fused # "ok") => last.result = <<>>

(* C13: when the collection does not exist, _search_qdrant returns the     *)
(* empty list without error, and the existence check is the only call it   *)
(* made: no embedding and no query.                                        *)
C13_AbsentCollectionShortCircuit ==
    (/\ last.op = "search" /\ last.exists = "ok"
     /\ ~client_collection_exists(qdrant, qdrant_collection)) =>
        /\ ~last.raised
        /\ last.result = <<>>
        /\ last.calls = <<"collection_exists">>
C13_Witness ==
    /\ last.op = "search" /\ last.exists = "ok" /\ last.query # <<>>
    /\ ~client_collection_exists(qdrant, qdrant_collection)
    /\ DOMAIN objects # {}
    /\ ~last.raised /\ last.result = <<>> /\ last.calls = <<"collection_exists">>

(* C14: _calculate_similarity_scores never raises: with the index client   *)
(* initialised, a failing collection-existence check, source retrieve or   *)
(* target retrieve gives the empty result list.                            *)
C14_SimilarityNeverRaises ==
    (last.op = "similarity" /\ qdrant_client # NoneVal) =>
        /\ ~last.raised
        /\ (last.exists # "ok" \/ last.src # "ok" \/ last.tgt # "ok") => last.result = <<>>

(* A stored point with a non-empty dense vector *)
HasDense(p) == "text-dense" \in DOMAIN p.vector /\ p.vector["text-dense"] # <<>>

(* The similarity calls whose three index calls answered and whose source  *)
(* point is stored with a dense vector                                     *)
SimilarityAnswered ==
    /\ last.op = "similarity" /\ ~last.raised
    /\ last.exists = "ok" /\ last.src = "ok" /\ last.tgt = "ok"
    /\ \E p \in PointsOf(qdrant, DocOfStr(last.source)) : HasDense(p)

(* The requested targets that are to be kept *)
KeptTargets ==
    {last.targets[k] : k \in {j \in 1..Len(last.targets) :
        \E p \in PointsOf(qdrant, DocOfStr(last.targets[j])) :
            /\ DOMAIN p.vector # {} /\ DOMAIN p.payload # {}
            /\ HasDense(p)
            /\ Truthy(last.org_id) => PayloadGet(p.payload, "org") = last.org_id}}

(* C15: a retrieved target is in the similarity result if and only if it   *)
(* has a vector and a payload, has a stored dense vector and, when a       *)
(* tenant id is given, carries that tenant id in its payload; the others   *)
(* are discarded and the call goes on.                                     *)
C15_TargetFiltering ==
    SimilarityAnswered =>
        /\ {last.result[i].mongo_id : i \in 1..Len(last.result)} = KeptTargets
        /\ Len(last.result) = Cardinality(KeptTargets)
C15_Witness ==
    /\ SimilarityAnswered /\ last.org_id = NoneVal
    /\ Len(last.targets) = 2 /\ Len(last.result) = 1
    /\ last.result[1].mongo_id = last.targets[2]
    /\ PointsOf(qdrant, DocOfStr(last.targets[1])) # {}

(* C16: the similarity result is sorted by similarity_score, highest       *)
(* first, and entries of equal score keep the order in which their points  *)
(* were retrieved.                                                         *)
C16_SortedStable ==
    last.op = "similarity" =>
        \A i \in 1..Len(last.result) : \A j \in 1..Len(last.result) :
            i < j =>
                /\ last.result[i].similarity_score >= last.result[j].similarity_score
                /\ last.result[i].similarity_score = last.result[j].similarity_score
                      => Position(last.targets, last.result[i].mongo_id)
                           < Position(last.targets, last.result[j].mongo_id)
C16_Witness ==
    /\ last.op = "similarity" /\ Len(last.result) = 2
    /\ last.result[1].similarity_score = last.result[2].similarity_score
    /\ last.result[1].mongo_id = ObjectIdStr[2] /\ last.result[2].mongo_id = ObjectIdStr[1]

(* C17: when the source point is absent from the collection or is stored   *)
(* without a dense vector, _calculate_similarity_scores returns the empty  *)
(* list, whatever the target ids.                                          *)
C17_NoSourceVectorNoResult ==
    (/\ last.op = "similarity" /\ last.exists = "ok"
     /\ ~\E p \in PointsOf(qdrant, DocOfStr(last.source)) : HasDense(p)) =>
        ~last.raised /\ last.result = <<>>
C17_Witness ==
    /\ last.op = "similarity" /\ last.exists = "ok" /\ last.src = "ok" /\ last.tgt = "ok"
    /\ PointsOf(qdrant, DocOfStr(last.source)) # {}
    /\ ~\E p \in PointsOf(qdrant, DocOfStr(last.source)) : HasDense(p)
    /\ \E k \in 1..Len(last.targets) :
          \E p \in PointsOf(qdrant, DocOfStr(last.targets[k])) : HasDense(p)
    /\ ~last.raised /\ last.result = <<>>

(* C18: _cosine_similarity returns exactly 0 when either vector has zero   *)
(* norm, and for all other vectors, also of different lengths, a value in  *)
(* [-1, 1].                                                                *)
C18_CosineBounds ==
    last.op = "cosine" =>
        /\ (Dot(last.vec1, last.vec1) = 0 \/ Dot(last.vec2, last.vec2) = 0) => last.result = 0
        /\ last.result \in (0 - CosScale)..CosScale

(* The retry call failed with transient errors at every attempt before k *)
TransientBefore(k) == \A j \in 1..(k - 1) : last.answers[j] = "transient"

(* C19: _with_retries invokes the call at most max_tries times, returns    *)
(* at the first attempt that succeeds without invoking it again, raises    *)
(* the transient error when all max_tries attempts fail with one, and      *)
(* always comes to an end.                                                 *)
C19_RetryBounded ==
    last.op = "retry" =>
        /\ last.r.tries \in 1..max_tries
        /\ last.r.res \in Answers
        /\ \A k \in 1..max_tries :
              (last.answers[k] = "ok" /\ TransientBefore(k))
                  => (last.r.res = "ok" /\ last.r.tries = k)
        /\ TransientBefore(max_tries + 1)
              => (last.r.res = "transient" /\ last.r.tries = max_tries)
C19_Witness ==
    /\ last.op = "retry" /\ TransientBefore(max_tries + 1)
    /\ last.answers[max_tries + 1] = "ok"
    /\ last.r.res = "transient" /\ last.r.tries = max_tries

(* C20: an error that is not transient is not retried: _with_retries       *)
(* raises it from the attempt at which it occurs, without sleeping after   *)
(* it; when it occurs at the first attempt the call is invoked exactly     *)
(* once and there is no sleep at all.                                      *)
C20_NonTransientPropagates ==
    last.op = "retry" =>
        \A k \in 1..max_tries :
            (last.answers[k] = "fatal" /\ TransientBefore(k))
                => /\ last.r.res = "fatal"
                   /\ last.r.tries = k
                   /\ Len(last.r.delays) = k - 1
C20_Witness ==
    /\ last.op = "retry" /\ last.answers[1] = "fatal" /\ last.answers[2] = "ok"
    /\ last.r.res = "fatal" /\ last.r.tries = 1 /\ last.r.delays = <<>>

C22_EnsureIdempotentNonFatal ==
    [][(last'.op = "save" /\ last'.u.sent) =>
         /\ ~last'.u.ens.raised /\ ~last'.u.raised /\ ~last'.hook
         /\ Len(last'.u.ens.calls) >= 1 /\ last'.u.ens.calls[1] = "get_collection"
         /\ IF client_collection_exists(qdrant, qdrant_collection)
            THEN DOMAIN qdrant' = DOMAIN qdrant /\ ~last'.u.ens.created
            ELSE /\ last'.u.ens.calls = <<"get_collection", "create_collection">>
                 /\ last'.u.ens.created = client_collection_exists(qdrant', qdrant_collection)
                 /\ ~last'.u.ens.created => qdrant' = qdrant]_vars
(* A failed creation: logged, nothing raised, the collection still absent  *)
(* and the record committed.                                               *)
C22_Witness ==
    /\ last.op = "save" /\ last.u.sent
    /\ last.u.ens.calls = <<"get_collection", "create_collection">> /\ ~last.u.ens.created
    /\ ~last.u.ens.raised /\ ~last.hook /\ ~last.u.ret
    /\ ~client_collection_exists(qdrant, qdrant_collection)
    /\ last.id \in DOMAIN objects

(* C23: when the dense embedder returns empty and the sparse embedder      *)
(* answers (the client set and the index answering), upsert_data_point     *)
(* still sends the point, and the point it stores carries the sparse       *)
(* vector only, with no dense entry at all.                                *)
C23_DegradedSparseOnly ==
    (/\ last.op = "save" /\ last.u.healthy
     /\ last.u.emb.d = "empty" /\ last.u.emb.s = "ok") =>
        /\ last.u.sent
        /\ \A p \in PointsOf(qdrant, last.id) : DOMAIN p.vector = {"text-sparse"}

(* C24: neither generate_dense_vector nor generate_sparse_vector raises    *)
(* to its caller: on an empty text and on a provider error each returns    *)
(* an empty value.  Observed at the searches that reach the embedders.     *)
C24_EmbedderNeverRaises ==
    (last.op = "search" /\ Len(last.calls) >= 2) =>
        /\ ~generate_dense_vector(last.query, last.emb).raised
        /\ (last.query = <<>> \/ ~last.emb) =>
               generate_dense_vector(last.query, last.emb).vec = <<>>
        /\ \A ok \in BOOLEAN :
               (last.query = <<>> \/ ~ok) =>
                   generate_sparse_vector(last.query, ok) = [indices |-> <<>>, values |-> <<>>]

(* The point upsert_data_point builds from a document instance when both   *)
(* embedders answer.                                                       *)
PointFor(id, doc) ==
    PointStruct(id, _build_dense_vector(doc, TRUE), _build_sparse_vector(doc, TRUE),
                _build_payload(id, doc))

(* A request whose index write is the step being taken: its client is    *)
(* set and its instance has a vector.                                      *)
Writes(t) ==
    /\ tasks[t].pc \in {"upsert", "resync"} /\ tasks'[t] # tasks[t]
    /\ qdrant_client # NoneVal
    /\ _build_dense_vector(tasks[t].doc, TRUE).some \/ _build_sparse_vector(tasks[t].doc, TRUE).some

(* C25: with requests racing on one entity, every index upsert call        *)
(* replaces the stored point by the one it carries, whatever version the   *)
(* primary store holds by then (no version check), and the index changes   *)
(* at no other step than the index call of a request: nothing repairs a    *)
(* stale point.                                                            *)
C25_LastWriteWins ==
    [][/\ \A t \in 1..MaxTasks :
            Writes(t) =>
                PointsOf(qdrant', tasks[t].id) = {PointFor(tasks[t].id, tasks[t].doc)}
       /\ qdrant' # qdrant =>
            \E t \in 1..MaxTasks :
                tasks[t].pc \in {"upsert", "resync", "delete"} /\ tasks'[t] # tasks[t]]_vars
(* Every request has completed, and the index holds a point built from an  *)
(* older version than the record of the primary store.                     *)
C25_Witness ==
    /\ \A t \in 1..MaxTasks : tasks[t] = NoTask
    /\ 1 \in DOMAIN objects
    /\ \E old \in Edits(1, Racing) :
          /\ old # objects[1]
          /\ PointsOf(qdrant, 1) = {PointFor(1, old)}
          /\ PointFor(1, old) # PointFor(1, objects[1])

(* C26: every point upsert_data_point sends has at least one vector, and   *)
(* for an entity with neither a dense nor a sparse vector to build (the    *)
(* text is empty or the embedder returns empty) nothing is sent, nothing   *)
(* is raised and the return value is False.                                *)
C26_AtLeastOneVector ==
    last.op = "save" =>
        /\ (last.u.sent /\ last.u.ret) =>
               \A p \in PointsOf(qdrant, last.id) : DOMAIN p.vector # {}
        /\ (last.u.emb.d \in {"skipped", "empty"} /\ last.u.emb.s \in {"skipped", "empty"}) =>
               (~last.u.sent /\ ~last.u.raised /\ ~last.u.ret)

(* The point with identifier string s *)
Pt(s) == [id |-> s]

C28_PayloadTotal ==
    last.op = "payload" =>
        /\ DOMAIN last.result = Range(job_payload_fields) \cup {"_id", "_collection"}
        /\ last.result["_id"] = ObjectIdStr[last.id]
        /\ last.result["_collection"] = "ha_job_listings"
        /\ \A f \in Range(job_payload_fields) :
              IF last.read[f].kind \in {"none", "raises"} THEN last.result[f] = NoneVal
              ELSE IF last.read[f].kind = "ref" THEN last.result[f] = last.read[f].id
              ELSE last.result[f] = last.read[f].v
(* An unreadable field next to a reference and a list that are copied *)
C28_Witness ==
    /\ last.op = "payload"
    /\ last.read["title"].kind = "raises" /\ last.result["title"] = NoneVal
    /\ last.read["status"].kind = "none" /\ last.result["status"] = NoneVal
    /\ last.read["created_by"].kind = "ref" /\ last.result["created_by"] = "u1"
    /\ last.read["required_skills"].kind = "value"
    /\ last.read["required_skills"].v = <<"go">> /\ last.result["required_skills"] = <<"go">>
    /\ last.result["_id"] = "c2"

(* C29: _cosine_similarity returns a score between 0 and 1 for every pair  *)
(* of vectors.                                                             *)
C29_CosineUnitInterval ==
    last.op = "cosine" => (0 <= last.result /\ last.result <= CosScale)

(* C30: once the post_delete hook of an entity has completed, the index    *)
(* holds no point with that entity's id, whatever save hook or bulk        *)
(* re-sync that read the entity before its deletion is still in flight.    *)
C30_DeleteNotUndone ==
    \A id \in deleted : PointsOf(qdrant, id) = {}

(* C31: with upserts of different entities running in parallel on a        *)
(* collection that may not exist yet, every upsert that has a client and   *)
(* a vector returns True with its point stored in the collection, under    *)
(* every                                                                   *)
(* interleaving of the describe, create and upsert calls; the error of a   *)
(* create that finds the collection already there is swallowed.            *)
C31_ConcurrentCreateSafe ==
    \A t \in 1..MaxTasks :
        (tasks[t] # NoTask /\ tasks[t].pc = "done" /\ ~tasks[t].raised
         /\ (\/ _build_dense_vector(tasks[t].doc, TRUE).some
             \/ _build_sparse_vector(tasks[t].doc, TRUE).some)) =>
            /\ tasks[t].sent /\ tasks[t].ret
            /\ client_collection_exists(qdrant, qdrant_collection)
            /\ PointFor(tasks[t].id, tasks[t].doc) \in qdrant[qdrant_collection]
(* Two upserts of different entities have completed; one of them lost the  *)
(* creation of the collection to the other.                                *)
C31_Witness ==
    /\ tasks[1] # NoTask /\ tasks[2] # NoTask
    /\ tasks[1].pc = "done" /\ tasks[2].pc = "done"
    /\ tasks[1].id # tasks[2].id
    /\ tasks[1].lost /\ ~tasks[2].lost
    /\ tasks[1].ret /\ tasks[2].ret
    /\ Cardinality(qdrant[qdrant_collection]) = 2

(* C32: _ensure_collection leaves every stored point as it is, also when  *)
(* the describe call fails although the collection exists and the          *)
(* creation is attempted.                                                  *)
C32_EnsureKeepsPoints ==
    (last.op = "save" /\ last.u.sent) => last.u.ens.kept
(* The describe call failed on a collection that holds the entity's point: *)
(* the creation was attempted and created nothing, the point write failed, *)
(* and the point is still there.                                           *)
C32_Witness ==
    /\ last.op = "save" /\ last.u.sent /\ last.u.ens.kept
    /\ last.u.ens.calls = <<"get_collection", "create_collection">>
    /\ ~last.u.ens.created /\ ~last.u.ret
    /\ PointsOf(qdrant, last.id) # {}

(* C33: for an entity whose dense and sparse embed fields are all empty,   *)
(* upsert_data_point returns False and does nothing else: nothing is       *)
(* raised, no embedder and no index call is made, and the index is as it   *)
(* was.                                                                    *)
C33_NoTextNoEffect ==
    [][(/\ last'.op = "save"
        /\ last'.u.emb.d = "skipped" /\ last'.u.emb.s = "skipped") =>
            /\ ~last'.u.raised /\ ~last'.u.ret /\ ~last'.u.sent
            /\ last'.u.ens.calls = <<>>
            /\ qdrant' = qdrant]_vars

(* C34: the patched update returns what the original update returns and    *)
(* never raises, whatever fails while the ids are captured or the          *)
(* documents re-synced; on a class that is not indexed it captures no id   *)
(* and leaves the index as it was.                                         *)
C34_PatchedUpdateTransparent ==
    [][last'.op = "update" =>
         /\ last'.result = last'.original
         /\ ~last'.raised
         /\ ~last'.indexed =>
                (last'.captured = <<>> /\ last'.invoked = <<>> /\ qdrant' = qdrant)]_vars
(* The re-sync of a bulk update on two Candidates failed; the update       *)
(* returned the original count.                                            *)
C34_Witness ==
    /\ last.op = "update" /\ last.indexed /\ last.aborted
    /\ last.original = 2 /\ last.result = 2 /\ ~last.raised

(* C35: when listing the affected ids fails before a bulk update of        *)
(* Candidates, the update is executed, no id is captured, no document is   *)
(* re-synced, the index is left as it was and nothing is raised.           *)
C35_CaptureFailureSkipsResync ==
    [][(last'.op = "update" /\ last'.indexed /\ ~last'.captureOk) =>
         /\ objects' = original_update(objects, last'.fv, last'.nv)
         /\ last'.result = Cardinality(Matching(objects, last'.fv))
         /\ last'.captured = <<>> /\ last'.invoked = <<>>
         /\ qdrant' = qdrant
         /\ ~last'.raised]_vars
(* A Candidate was updated without its ids being captured: its point still *)
(* carries the status from before the update.                              *)
C35_Witness ==
    /\ last.op = "update" /\ last.indexed /\ ~last.captureOk /\ last.fv # last.nv
    /\ \E id \in last.matched :
          /\ objects[id].status = last.nv
          /\ PointsOf(qdrant, id) # {}
          /\ \A p \in PointsOf(qdrant, id) : p.payload["status"] = last.fv

(* C36: every stored point carries its own id as payload `_id`, and every  *)
(* entry of a similarity result names a requested target: the source only  *)
(* when it was requested as a target, no target twice, and no more entries *)
(* than target points stored.                                              *)
C36_ResultNamesTargets ==
    /\ \A c \in DOMAIN qdrant : \A p \in qdrant[c] : PayloadGet(p.payload, "_id") = p.id
    /\ last.op = "similarity" =>
          /\ \A i \in 1..Len(last.result) : last.result[i].mongo_id \in Range(last.targets)
          /\ last.source \notin Range(last.targets) =>
                 \A i \in 1..Len(last.result) : last.result[i].mongo_id # last.source
          /\ \A i \in 1..Len(last.result), j \in 1..Len(last.result) :
                 i # j => last.result[i].mongo_id # last.result[j].mongo_id
          /\ last.result # <<>> =>
                 Len(last.result) <=
                     Cardinality({p \in qdrant[qdrant_collection] : p.id \in Range(last.targets)})
(* The source was requested as a target, with another entity that is not   *)
(* stored with a dense vector: the result is the source alone.             *)
C36_Witness ==
    /\ last.op = "similarity" /\ Len(last.targets) = 2
    /\ last.source \in Range(last.targets)
    /\ Len(last.result) = 1 /\ last.result[1].mongo_id = last.source
    /\ Cardinality(qdrant[qdrant_collection]) = 2

(* C37: a tenant id that is the empty string (or None) restricts nothing:  *)
(* the search gives the result of the query without a filter and the       *)
(* similarity call ranks every retrieved target, whatever tenant it        *)
(* belongs to; a non-empty tenant id restricts the result to points whose  *)
(* payload org equals it.                                                  *)
C37_EmptyTenantIsNoTenant ==
    /\ (last.op = "search" /\ last.org_id \in {NoneVal, ""}
        /\ Len(last.calls) = 4 /\ last.fused = "ok") =>
          \E sOk \in BOOLEAN :
              last.result =
                  client_query_points(qdrant, qdrant_collection,
                                      generate_sparse_vector(last.query, sOk),
                                      generate_dense_vector(last.query, last.emb).vec,
                                      [must |-> <<>>], last.limit)
    /\ (last.op = "similarity" /\ last.org_id \in {NoneVal, ""}
        /\ last.exists = "ok" /\ last.src = "ok" /\ last.tgt = "ok"
        /\ client_collection_exists(qdrant, qdrant_collection)) =>
          LET src == client_retrieve(qdrant, qdrant_collection, <<last.source>>)
              tgt == client_retrieve(qdrant, qdrant_collection, last.targets)
          IN last.result =
                 IF src = <<>> \/ DOMAIN src[1].vector = {} THEN <<>>
                 ELSE SortDesc(_compute_similarities(src[1].vector, tgt, NoneVal))
    /\ (last.op = "search" /\ last.org_id \notin {NoneVal, ""}) =>
          \A i \in 1..Len(last.result) :
              PayloadGet(last.result[i].payload, "org") = last.org_id
(* A search with the empty string as tenant id returned the points of      *)
(* entities of two organisations.                                          *)
C37_Witness ==
    /\ last.op = "search" /\ last.org_id = "" /\ Len(last.result) = 2
    /\ {last.result[1].id, last.result[2].id} = {ObjectIdStr[1], ObjectIdStr[2]}
    /\ 1 \in DOMAIN objects /\ 2 \in DOMAIN objects
    /\ objects[1].org # objects[2].org

====
